---- MODULE Spec2Model ----
(***************************************************************************)
(* extract_coverage.py: print the line coverage of one named target of a   *)
(* JSON coverage report read from standard input, as a whole percentage.   *)
(*                                                                         *)
(* The script is modelled statement by statement (the program counter pc   *)
(* names the source line about to run).  A run is determined by its        *)
(* argument list and by the content of standard input, both chosen in      *)
(* Init.  The script needs a Python 3 interpreter (line 7 is a syntax      *)
(* error for Python 2); an unhandled exception ends the process with a     *)
(* traceback on stderr and exit code 1.                                    *)
(*                                                                         *)
(* Numbers: a lineCoverage value is the fraction num / Denom with Denom a  *)
(* power of two.  Such a value and its product with 100 are exactly        *)
(* representable as IEEE doubles, so the float arithmetic of line 15 is    *)
(* the exact rational arithmetic written here.                             *)
(***************************************************************************)
EXTENDS Integers, Sequences, FiniteSets, TLC

\* ---------------------------------------------------------------- bounds
MaxTargets == 2
MaxArgs == 2
DenomBits == 3

Denom == 2 ^ DenomBits

Names == {"alpha", "beta"}

\* ------------------------------------------------------- JSON documents
Null == [kind |-> "null"]

Number(n) == [kind |-> "number", num |-> n]

\* the values a lineCoverage member can hold: the fractions num / Denom in
\* [0,1], or null
CoverageValues == {Number(n) : n \in 0..Denom} \cup {Null}

\* one half, one, or null
SampleCoverage == {Number(Denom \div 2), Number(Denom), Null}

\* a JSON object standing in targets; keys is the set of members present
TargetRecord(keys, nm, lc) ==
    [kind |-> "object", keys |-> keys, name |-> nm, lineCoverage |-> lc]

\* the entries of targets with lineCoverage in cov: objects with or without
\* name and lineCoverage, and a number where an object should stand
EntriesOver(cov) ==
    {TargetRecord({"name", "lineCoverage"}, nm, lc) : nm \in Names, lc \in cov}
    \cup {TargetRecord({"name"}, nm, Null) : nm \in Names}
    \cup {TargetRecord({"lineCoverage"}, "", lc) : lc \in cov}
    \cup {TargetRecord({}, "", Null)}
    \cup {Number(0)}

Entries == EntriesOver(SampleCoverage)

\* reports of up to MaxTargets entries of every shape
ShapeArrays ==
    UNION {[1..n -> Entries] : n \in 0..MaxTargets}

\* reports of up to MaxTargets entries with one entry ranging over every
\* lineCoverage value, the others being targets with lineCoverage one half
GridArrays ==
    LET half == {TargetRecord({"name", "lineCoverage"}, nm, Number(Denom \div 2)) :
                    nm \in Names}
    IN  UNION {{[a EXCEPT ![k] = e] :
                    a \in [1..n -> half], k \in 1..n,
                    e \in EntriesOver(CoverageValues)} : n \in 1..MaxTargets}

Arrays == ShapeArrays \cup GridArrays

\* the values the targets member can hold
TargetsValues ==
    {[kind |-> "array", items |-> a] : a \in Arrays}
    \cup {[kind |-> "string", len |-> n] : n \in 0..1}
    \cup {[kind |-> "dict", len |-> n] : n \in 0..1}
    \cup {Null}

\* the documents: an object with or without targets, or a top-level array
CoverageReport(tv) == [kind |-> "object", keys |-> {"targets"}, targets |-> tv]

Documents ==
    {CoverageReport(tv) : tv \in TargetsValues}
    \cup {[kind |-> "object", keys |-> {}, targets |-> Null]}
    \cup {[kind |-> "list", keys |-> {}, targets |-> Null]}

\* number of places of a document's text at which a syntax error can stand:
\* after each entry of targets, and in the text that follows the array
Places(doc) ==
    IF doc.kind = "object" /\ "targets" \in doc.keys
       /\ doc.targets.kind = "array"
    THEN Len(doc.targets.items) + 1
    ELSE 1

\* standard input: no text at all, or the text of a document, syntactically
\* valid throughout (errAt = 0) or broken at place errAt
Inputs ==
    {[kind |-> "empty", doc |-> Null, errAt |-> 0]}
    \cup {[kind |-> "text", doc |-> d, errAt |-> k] :
            d \in Documents, k \in 0..1}
    \cup UNION {{[kind |-> "text", doc |-> d, errAt |-> k] :
                    k \in 2..Places(d)} : d \in Documents}

\* sys.argv[1:]
ArgLists ==
    UNION {[1..n -> Names] : n \in 0..MaxArgs}

\* ------------------------------------------------ expression evaluation
Ok(v) == [ok |-> TRUE, val |-> v, exc |-> ""]

Raise(e) == [ok |-> FALSE, val |-> Null, exc |-> e]

\* a parser that stops at the end of the first entry and never sees what
\* follows it
json_loadStreaming(s) ==
    IF s.kind = "empty" \/ s.errAt = 1
    THEN Raise("JSONDecodeError")
    ELSE Ok(s.doc)

\* a parser that repairs what it cannot read
json_loadLenient(s) ==
    IF s.kind = "empty"
    THEN Raise("JSONDecodeError")
    ELSE Ok(s.doc)

\* json.load(sys.stdin)
json_load(s) ==
    IF s.kind = "empty" \/ s.errAt # 0
    THEN Raise("JSONDecodeError")
    ELSE Ok(s.doc)

\* j["targets"]
GetTargets(doc) ==
    IF doc.kind # "object" THEN Raise("TypeError")
    ELSE IF "targets" \notin doc.keys THEN Raise("KeyError")
    ELSE Ok(doc.targets)

\* len(j["targets"])
PyLen(tv) ==
    CASE tv.kind = "array" -> Ok(Len(tv.items))
      [] tv.kind \in {"string", "dict"} -> Ok(tv.len)
      [] OTHER -> Raise("TypeError")

\* j["targets"][i]
GetItem(tv, idx) ==
    CASE tv.kind = "array" -> Ok(tv.items[idx + 1])
      [] tv.kind = "string" -> Ok([kind |-> "string"])
      [] OTHER -> Raise("KeyError")

\* j["targets"][i].get(key, ""): an absent name reads as the empty string
GetMemberDefault(e, key) ==
    IF e.kind # "object" THEN Raise("TypeError")
    ELSE IF key \notin e.keys
         THEN (IF key = "name" THEN Ok("") ELSE Raise("KeyError"))
    ELSE Ok(e[key])

\* j["targets"][i][key]
GetMember(e, key) ==
    IF e.kind # "object" THEN Raise("TypeError")
    ELSE IF key \notin e.keys THEN Raise("KeyError")
    ELSE Ok(e[key])

\* j["targets"][i][key], with the lookups that lead to it
Lookup(doc, idx, key) ==
    LET t == GetTargets(doc) IN
    IF ~t.ok THEN t
    ELSE LET e == GetItem(t.val, idx) IN
         IF ~e.ok THEN e ELSE GetMember(e.val, key)

\* v, the factor forgotten
Times100NoScale(v) ==
    IF v.kind = "number" THEN Ok(Number(v.num)) ELSE Raise("TypeError")

\* v * 100
Times100(v) ==
    IF v.kind = "number" THEN Ok(Number(v.num * 100)) ELSE Raise("TypeError")

\* the integer nearest to num / Denom, a tie going up
RoundHalfUp(num) ==
    LET q == num \div Denom
        r == num % Denom
    IN  IF 2 * r < Denom THEN q ELSE q + 1

\* the integer nearest to num / Denom, a tie going to the even neighbour
RoundHalfEven(num) ==
    LET q == num \div Denom
        r == num % Denom
    IN  IF 2 * r < Denom THEN q
        ELSE IF 2 * r > Denom THEN q + 1
        ELSE IF q % 2 = 0 THEN q ELSE q + 1

DigitChars == <<"0", "1", "2", "3", "4", "5", "6", "7", "8", "9">>

RECURSIVE Decimal(_)
\* the decimal digits of a natural number
Decimal(k) ==
    IF k < 10 THEN <<DigitChars[k + 1]>>
    ELSE Append(Decimal(k \div 10), DigitChars[(k % 10) + 1])

\* "{0:.0f}".format(v)
Format0f(v) ==
    LET r == RoundHalfEven(v.num) IN
    IF r < 0 THEN <<"-">> \o Decimal(-r) ELSE Decimal(r)

\* ---------------------------------------------------------------- state
VARIABLES argv, stdin, stdinRead, pc, framework, j, rng, i,
          stdout, stderr, exitcode

vars == <<argv, stdin, stdinRead, pc, framework, j, rng, i,
          stdout, stderr, exitcode>>

Running == -1

Init ==
    /\ argv \in ArgLists
    /\ stdin \in Inputs
    /\ stdinRead = FALSE
    /\ pc = "L6"
    /\ framework = ""
    /\ j = Null
    /\ rng = -1
    /\ i = -1
    /\ stdout = <<>>
    /\ stderr = <<>>
    /\ exitcode = Running

\* an unhandled exception: traceback on stderr, exit code 1
Unhandled(exc) ==
    /\ stderr' = Append(stderr, exc)
    /\ exitcode' = 1
    /\ pc' = "done"

\* if len(sys.argv) < 2
CheckArgsAtLeast ==
    /\ pc = "L6"
    /\ pc' = IF Len(argv) + 1 < 2 THEN "L7" ELSE "L10"
    /\ UNCHANGED <<argv, stdin, stdinRead, framework, j, rng, i,
                   stdout, stderr, exitcode>>

\* line 6: if len(sys.argv) != 2
CheckArgs ==
    /\ pc = "L6"
    /\ pc' = IF Len(argv) + 1 # 2 THEN "L7" ELSE "L10"
    /\ UNCHANGED <<argv, stdin, stdinRead, framework, j, rng, i,
                   stdout, stderr, exitcode>>

\* line 7: print("Usage: ...", file = sys.stderr)
PrintUsage ==
    /\ pc = "L7"
    /\ stderr' = Append(stderr, "Usage")
    /\ pc' = "L8"
    /\ UNCHANGED <<argv, stdin, stdinRead, framework, j, rng, i,
                   stdout, exitcode>>

\* line 8: exit(1)
ExitUsage ==
    /\ pc = "L8"
    /\ exitcode' = 1
    /\ pc' = "done"
    /\ UNCHANGED <<argv, stdin, stdinRead, framework, j, rng, i,
                   stdout, stderr>>

\* line 10: framework = sys.argv[1]
SetFramework ==
    /\ pc = "L10"
    /\ framework' = argv[1]
    /\ pc' = "L12"
    /\ UNCHANGED <<argv, stdin, stdinRead, j, rng, i,
                   stdout, stderr, exitcode>>

\* line 12: j = json.load(sys.stdin)
LoadJson ==
    /\ pc = "L12"
    /\ stdinRead' = TRUE
    /\ LET r == json_load(stdin) IN
       IF r.ok
       THEN /\ j' = r.val
            /\ pc' = "L13"
            /\ UNCHANGED <<stderr, exitcode>>
       ELSE /\ Unhandled(r.exc)
            /\ UNCHANGED j
    /\ UNCHANGED <<argv, stdin, framework, rng, i, stdout>>

\* line 13, entering the loop: range(len(j["targets"]))
ForRange ==
    /\ pc = "L13"
    /\ LET t == GetTargets(j)
           n == IF t.ok THEN PyLen(t.val) ELSE t
       IN  IF n.ok
           THEN /\ rng' = n.val
                /\ pc' = "L13n"
                /\ UNCHANGED <<stderr, exitcode>>
           ELSE /\ Unhandled(n.exc)
                /\ UNCHANGED rng
    /\ UNCHANGED <<argv, stdin, stdinRead, framework, j, i, stdout>>

\* range(len(j["targets"]) - 1): the last entry is never reached
ForNextShort ==
    /\ pc = "L13n"
    /\ IF i + 2 < rng
       THEN /\ i' = i + 1
            /\ pc' = "L14"
       ELSE /\ pc' = "L18"
            /\ UNCHANGED i
    /\ UNCHANGED <<argv, stdin, stdinRead, framework, j, rng,
                   stdout, stderr, exitcode>>

\* line 13, each turn of the loop: the next index, or fall out to line 18
ForNext ==
    /\ pc = "L13n"
    /\ IF i + 1 < rng
       THEN /\ i' = i + 1
            /\ pc' = "L14"
       ELSE /\ pc' = "L18"
            /\ UNCHANGED i
    /\ UNCHANGED <<argv, stdin, stdinRead, framework, j, rng,
                   stdout, stderr, exitcode>>

\* the entry's lineCoverage is fetched before its name is compared
TestNameEager ==
    /\ pc = "L14"
    /\ LET lc == Lookup(j, i, "lineCoverage")
           nm == IF lc.ok THEN Lookup(j, i, "name") ELSE lc
       IN  IF nm.ok
           THEN /\ pc' = IF nm.val = framework THEN "L15" ELSE "L13n"
                /\ UNCHANGED <<stderr, exitcode>>
           ELSE Unhandled(nm.exc)
    /\ UNCHANGED <<argv, stdin, stdinRead, framework, j, rng, i, stdout>>

\* line 14: if j["targets"][i]["name"] == framework
TestName ==
    /\ pc = "L14"
    /\ LET nm == Lookup(j, i, "name") IN
       IF nm.ok
       THEN /\ pc' = IF nm.val = framework THEN "L15" ELSE "L13n"
            /\ UNCHANGED <<stderr, exitcode>>
       ELSE Unhandled(nm.exc)
    /\ UNCHANGED <<argv, stdin, stdinRead, framework, j, rng, i, stdout>>

\* line 15: print("{0:.0f}".format(j["targets"][i]["lineCoverage"] * 100))
PrintCoverage ==
    /\ pc = "L15"
    /\ LET lc == Lookup(j, i, "lineCoverage")
           p == IF lc.ok THEN Times100(lc.val) ELSE lc
       IN  IF p.ok
           THEN /\ stdout' = Append(stdout, Format0f(p.val))
                /\ pc' = "L16"
                /\ UNCHANGED <<stderr, exitcode>>
           ELSE /\ Unhandled(p.exc)
                /\ UNCHANGED stdout
    /\ UNCHANGED <<argv, stdin, stdinRead, framework, j, rng, i>>

\* line 16 left out: the loop goes on after the print
ExitFoundMissing ==
    /\ pc = "L16"
    /\ pc' = "L13n"
    /\ UNCHANGED <<argv, stdin, stdinRead, framework, j, rng, i,
                   stdout, stderr, exitcode>>

\* exit(1) after the print
ExitFoundFailure ==
    /\ pc = "L16"
    /\ exitcode' = 1
    /\ pc' = "done"
    /\ UNCHANGED <<argv, stdin, stdinRead, framework, j, rng, i,
                   stdout, stderr>>

\* line 16: exit(0)
ExitFound ==
    /\ pc = "L16"
    /\ exitcode' = 0
    /\ pc' = "done"
    /\ UNCHANGED <<argv, stdin, stdinRead, framework, j, rng, i,
                   stdout, stderr>>

\* line 18: exit(1)
ExitNotFound ==
    /\ pc = "L18"
    /\ exitcode' = 1
    /\ pc' = "done"
    /\ UNCHANGED <<argv, stdin, stdinRead, framework, j, rng, i,
                   stdout, stderr>>

Next ==
    \/ CheckArgs
    \/ PrintUsage
    \/ ExitUsage
    \/ SetFramework
    \/ LoadJson
    \/ ForRange
    \/ ForNext
    \/ TestName
    \/ PrintCoverage
    \/ ExitFound
    \/ ExitNotFound

Spec == Init /\ [][Next]_vars

\* -------------------------------------------- the run as a pure function
Result(out, code) == [stdout |-> out, exitcode |-> code]

RECURSIVE Scan(_, _, _, _)
\* lines 13-18: the turns of the loop from index idx on, then line 18
Scan(doc, fw, n, idx) ==
    IF idx >= n THEN Result(<<>>, 1)
    ELSE LET nm == Lookup(doc, idx, "name") IN
         IF ~nm.ok THEN Result(<<>>, 1)
         ELSE IF nm.val = fw
         THEN LET lc == Lookup(doc, idx, "lineCoverage")
                  p == IF lc.ok THEN Times100(lc.val) ELSE lc
              IN  IF p.ok THEN Result(<<Format0f(p.val)>>, 0)
                  ELSE Result(<<>>, 1)
         ELSE Scan(doc, fw, n, idx + 1)

\* stdout and exit code of the run on argument list args and input s
Outcome(args, s) ==
    IF Len(args) + 1 # 2 THEN Result(<<>>, 1)
    ELSE LET r == json_load(s)
             t == IF r.ok THEN GetTargets(r.val) ELSE r
             n == IF t.ok THEN PyLen(t.val) ELSE t
         IN  IF n.ok THEN Scan(r.val, args[1], n.val, 0)
             ELSE Result(<<>>, 1)

TypeOK ==
    /\ pc \in {"L6", "L7", "L8", "L10", "L12", "L13", "L13n", "L14", "L15",
               "L16", "L18", "done"}
    /\ exitcode \in {Running, 0, 1}
    /\ (pc = "done") <=> (exitcode # Running)
    /\ i \in -1..MaxTargets

\* ------------------------------------------- vocabulary of the properties
Done == pc = "done"

OneArg == Len(argv) = 1

\* the text on stdin is a syntactically valid document
Parsed == stdin.kind = "text" /\ stdin.errAt = 0

\* the document is an object with a targets member
HasTargets ==
    stdin.kind = "text" /\ stdin.doc.kind = "object"
    /\ "targets" \in stdin.doc.keys

ArrayReport == HasTargets /\ stdin.doc.targets.kind = "array"

Items == stdin.doc.targets.items

HasName(e) == e.kind = "object" /\ "name" \in e.keys

HasCoverage(e) == e.kind = "object" /\ "lineCoverage" \in e.keys

Named(e, nm) == HasName(e) /\ e.name = nm

NumericCoverage(e) == HasCoverage(e) /\ e.lineCoverage.kind = "number"

WellFormed ==
    /\ Parsed
    /\ ArrayReport
    /\ \A k \in DOMAIN Items : HasName(Items[k]) /\ NumericCoverage(Items[k])

\* the indices (from 1) of the entries named nm
MatchIndices(items, nm) == {k \in DOMAIN items : Named(items[k], nm)}

Min(S) == CHOOSE k \in S : \A m \in S : k <= m

Matches == MatchIndices(Items, argv[1])

FirstMatch == Min(Matches)

\* the input of this run with the entries of targets replaced by items
WithItems(items) ==
    [stdin EXCEPT !.doc.targets.items = items]

SameOutcome(args, s) == Outcome(args, s) = Result(stdout, exitcode)

Abs(x) == IF x < 0 THEN -x ELSE x

DigitValue(c) == CHOOSE d \in 0..9 : DigitChars[d + 1] = c

RECURSIVE DecimalValue(_)
\* the number a digit string denotes
DecimalValue(t) ==
    IF Len(t) = 0 THEN 0
    ELSE 10 * DecimalValue(SubSeq(t, 1, Len(t) - 1)) + DigitValue(t[Len(t)])

\* digits only, no sign, no point, no leading zero
IsUnsignedInteger(t) ==
    /\ Len(t) >= 1
    /\ \A k \in DOMAIN t : \E d \in DOMAIN DigitChars : t[k] = DigitChars[d]
    /\ Len(t) > 1 => t[1] # "0"

\* line t denotes an integer nearest to 100 * num / Denom
PrintsPercentOf(t, num) ==
    /\ IsUnsignedInteger(t)
    /\ 2 * Abs(DecimalValue(t) * Denom - 100 * num) <= Denom

\* ------------------------------------------------------------------- C1
\* C1 as stated: in a well-formed report, for EVERY entry named N, with
\* lineCoverage c, the run with argument N prints round(c * 100) as its
\* only line and exits 0.
C1_EveryNamedTarget ==
    (Done /\ OneArg /\ WellFormed) =>
        \A k \in Matches :
            /\ exitcode = 0
            /\ Len(stdout) = 1
            /\ PrintsPercentOf(stdout[1], Items[k].lineCoverage.num)

\* C1 amended: in a well-formed report with an entry named N, the run with
\* argument N prints round(c * 100) as its only stdout line, c being the
\* lineCoverage of the first entry named N, writes nothing to stderr and
\* exits 0.
C1_FirstNamedTarget ==
    (Done /\ OneArg /\ WellFormed /\ Matches # {}) =>
        /\ exitcode = 0
        /\ stderr = <<>>
        /\ Len(stdout) = 1
        /\ PrintsPercentOf(stdout[1], Items[FirstMatch].lineCoverage.num)

C1_Witness ==
    /\ Done /\ OneArg /\ WellFormed
    /\ Matches = {2}
    /\ Items[2].lineCoverage.num * 2 = Denom
    /\ stdout = << <<"5", "0">> >>
    /\ exitcode = 0

\* ------------------------------------------------------------------- C2
\* C2: in a well-formed report without an entry named N (an empty targets
\* included) the run with argument N writes nothing to stdout and nothing
\* to stderr, reaches its final exit only with every entry examined, and
\* exits with code 1.
C2_NotFound ==
    (OneArg /\ WellFormed /\ Matches = {}) =>
        /\ stdout = <<>>
        /\ stderr = <<>>
        /\ pc \in {"L18", "done"} => i + 1 = Len(Items)
        /\ Done => exitcode = 1

C2_Witness ==
    /\ Done /\ OneArg /\ WellFormed
    /\ Matches = {}
    /\ Len(Items) >= 2
    /\ exitcode = 1

\* ------------------------------------------------------------------- C3
\* C3: with zero or with two or more arguments the run never reads stdin,
\* writes nothing to stdout, and ends with one usage line on stderr and
\* exit code 1, whatever stdin holds.
C3_Usage ==
    Len(argv) # 1 =>
        /\ ~stdinRead
        /\ stdout = <<>>
        /\ Len(stderr) <= 1
        /\ Done => (stderr = <<"Usage">> /\ exitcode = 1)

C3_Witness ==
    /\ Done
    /\ Len(argv) >= 2
    /\ WellFormed
    /\ Matches # {}
    /\ stderr = <<"Usage">>

\* ------------------------------------------------------------------- C4
Unparseable == stdin.kind = "empty" \/ stdin.errAt # 0

NoTargetsKey == stdin.doc.kind # "object" \/ "targets" \notin stdin.doc.keys

\* C4: with one argument, when stdin is empty or syntactically invalid, or
\* the document has no targets key, the run writes nothing to stdout and
\* exits with a non-zero code.
C4_Malformed ==
    (OneArg /\ (Unparseable \/ NoTargetsKey)) =>
        /\ stdout = <<>>
        /\ Done => exitcode # 0

C4_Witness ==
    /\ Done /\ OneArg
    /\ Parsed /\ stdin.doc.kind = "object" /\ NoTargetsKey
    /\ stderr = <<"KeyError">>
    /\ exitcode = 1

\* ------------------------------------------------------------------- C5
Defective(e) == ~HasName(e) \/ ~HasCoverage(e)

Failed == exitcode # 0 /\ stdout = <<>>

\* C5 as stated: with one argument, when targets is not an array or ANY
\* entry lacks name or lineCoverage, wherever it stands, the run exits
\* non-zero and writes nothing to stdout.
C5_AnyDefectiveEntry ==
    (Done /\ OneArg /\ Parsed /\ HasTargets
     /\ (~ArrayReport \/ \E k \in DOMAIN Items : Defective(Items[k])))
        => Failed

\* an entry without name stands before every entry named N
NamelessBeforeMatch ==
    \E k \in DOMAIN Items :
        ~HasName(Items[k]) /\ \A m \in Matches : k < m

FirstMatchLacksCoverage ==
    Matches # {} /\ ~HasCoverage(Items[FirstMatch])

\* C5 amended: with one argument N, the run exits non-zero and writes
\* nothing to stdout when targets is not an array, when an entry without
\* name stands before every entry named N, or when the first entry named N
\* lacks lineCoverage; in the last two cases, and for a non-empty
\* non-array, the exit is a KeyError or TypeError raised by the lookup.
C5_DefectReached ==
    (Done /\ OneArg /\ Parsed /\ HasTargets) =>
        /\ ~ArrayReport =>
            /\ Failed
            /\ stderr \in {<<>>, <<"KeyError">>, <<"TypeError">>}
            /\ (stderr = <<>>) <=>
                    (stdin.doc.targets.kind \in {"string", "dict"}
                     /\ stdin.doc.targets.len = 0)
        /\ (ArrayReport /\ (NamelessBeforeMatch \/ FirstMatchLacksCoverage)) =>
            /\ Failed
            /\ stderr \in {<<"KeyError">>, <<"TypeError">>}

C5_Witness ==
    /\ Done /\ OneArg /\ Parsed /\ ArrayReport
    /\ Len(Items) = 2
    /\ ~HasName(Items[1])
    /\ Named(Items[2], argv[1]) /\ NumericCoverage(Items[2])
    /\ exitcode = 1

\* ------------------------------------------------------------------- C6
\* the other entries an entry named nm could be
SameNameEntries(nm) == {e \in EntriesOver(CoverageValues) : Named(e, nm)}

\* C6: when several entries are named N, what is printed is the percentage
\* of the one with the smallest index; replacing any later entry named N by
\* another entry named N leaves stdout and the exit code as they are, and
\* stdout and exit code are a function of argument and input.
C6_FirstOfDuplicates ==
    (Done /\ OneArg /\ Parsed /\ ArrayReport /\ Cardinality(Matches) >= 2) =>
        /\ SameOutcome(argv, stdin)
        /\ stdout # <<>> =>
            /\ i + 1 = FirstMatch
            /\ NumericCoverage(Items[FirstMatch])
            /\ stdout = <<Format0f(
                    Number(100 * Items[FirstMatch].lineCoverage.num))>>
        /\ ((\A k \in 1..FirstMatch : HasName(Items[k]))
            /\ NumericCoverage(Items[FirstMatch])) =>
                (stdout # <<>> /\ exitcode = 0)
        /\ \A k \in Matches \ {FirstMatch} :
             \A e \in SameNameEntries(argv[1]) :
                SameOutcome(argv, WithItems([Items EXCEPT ![k] = e]))

C6_Witness ==
    /\ Done /\ OneArg /\ Parsed /\ ArrayReport
    /\ Matches = {1, 2}
    /\ NumericCoverage(Items[1]) /\ NumericCoverage(Items[2])
    /\ Items[1].lineCoverage.num * 2 = Denom
    /\ Items[2].lineCoverage.num = Denom
    /\ stdout = << <<"5", "0">> >>
    /\ exitcode = 0

\* ------------------------------------------------------------------- C7
\* C7: stdout never holds more than one line; once a line is written the
\* run can only exit with code 0; a terminated run has exactly one line on
\* stdout when its exit code is 0 and none when it is non-zero.
C7_OneLineOrFailure ==
    /\ Len(stdout) <= 1
    /\ stdout # <<>> => (pc \in {"L16", "done"} /\ exitcode \in {Running, 0})
    /\ Done => ((exitcode = 0) <=> (Len(stdout) = 1))
    /\ Done => exitcode \in {0, 1}

C7_Witness ==
    /\ Done
    /\ exitcode = 0
    /\ Len(stdout) = 1
    /\ Len(Items) = 2

\* ------------------------------------------------------------------- C8
\* C8: with one argument, no statement after line 12 runs and no entry is
\* examined unless stdin was read whole and parsed as a valid document;
\* a text with a syntax error, wherever the error stands, gives no stdout
\* output and a non-zero exit.
C8_ParseBeforeScan ==
    OneArg =>
        /\ (pc \in {"L13", "L13n", "L14", "L15", "L16", "L18"}
            \/ i >= 0 \/ stdout # <<>>) =>
                (stdinRead /\ Parsed /\ j = stdin.doc)
        /\ (stdin.kind = "text" /\ stdin.errAt # 0) =>
                /\ stdout = <<>>
                /\ i = -1
                /\ Done => exitcode # 0

\* the first entry matches and the syntax error stands after it
C8_Witness ==
    /\ Done /\ OneArg
    /\ ArrayReport
    /\ stdin.errAt >= 2
    /\ Named(Items[1], argv[1]) /\ NumericCoverage(Items[1])
    /\ stdinRead
    /\ exitcode = 1

\* ------------------------------------------------------------------- C9
\* what the scan reads of an entry that stands before the first match
NameView(e) == IF HasName(e) THEN <<TRUE, e.name>> ELSE <<FALSE, "">>

\* reports that agree with items on the names of the entries before index
\* f and on entry f: one entry changed, the tail cut off, or an entry added
Variants(items, f) ==
    LET any == EntriesOver(CoverageValues) IN
    {[items EXCEPT ![k] = e] : k \in (f + 1)..Len(items), e \in any}
    \cup {SubSeq(items, 1, f)}
    \cup {Append(items, e) : e \in any}
    \cup UNION {{[items EXCEPT ![k] = e] :
                    e \in {x \in any : NameView(x) = NameView(items[k])}} :
                k \in 1..(f - 1)}

\* C9: the scan never examines an entry past the first one named N and a
\* successful run stops on it; every report that agrees with this one on
\* the names of the entries before the first match and on the matching
\* entry gives the same stdout and exit code.
C9_PrefixDetermines ==
    (OneArg /\ Parsed /\ ArrayReport /\ Matches # {}) =>
        /\ i + 1 <= FirstMatch
        /\ (pc \in {"L15", "L16"} \/ exitcode = 0) => i + 1 = FirstMatch
        /\ Done =>
            \A r \in Variants(Items, FirstMatch) :
                SameOutcome(argv, WithItems(r))

C9_Witness ==
    /\ Done /\ OneArg /\ Parsed /\ ArrayReport
    /\ Matches = {2}
    /\ HasName(Items[1]) /\ ~HasCoverage(Items[1])
    /\ exitcode = 0
    /\ Len(stdout) = 1

====
